---- MODULE Spec2Model ----
(***************************************************************************)
(* Docling Folder Converter (src/main.py).                                 *)
(*                                                                         *)
(* Two parts of the program are modelled:                                  *)
(*   - the text cleaning pipeline (cut_intro_sections,                     *)
(*     cut_off_after_standby, split_into_chunks, clean_text_pipeline);     *)
(*     a text is a sequence of one-character strings and the three         *)
(*     regular expressions of the source are modelled by what Python's     *)
(*     backtracking matcher finds for them;                                *)
(*   - the batch driver (convert_folder, run_conversion) with the Tk       *)
(*     event dispatch done by progress_bar.update().                       *)
(***************************************************************************)
EXTENDS Integers, Sequences, FiniteSets, TLC

VARIABLES
    \* ---- text cleaning pipeline ----
    markdown_text,  \* the argument of clean_text_pipeline
    t1,             \* cut_intro_sections: t after STEP 1 (line 36)
    t2,             \* cut_intro_sections: the returned text (line 56 / 72)
    t3,             \* the text returned by cut_off_after_standby
    chunks,         \* the list returned by split_into_chunks
    joined,         \* the results of "\n\n".join(chunks), oldest first
    pc,             \* position in clean_text_pipeline
    \* ---- batch driver and GUI ----
    input_var,      \* tk.StringVar of the input folder ("" when not chosen)
    output_var,     \* tk.StringVar of the output folder
    frames,         \* the active convert_folder calls, innermost last
    progress,       \* progress_bar: [maximum, value]
    status,         \* status_label: [kind, file]
    disk,           \* output folder: destination path -> what was written
    dialogs,        \* the message boxes shown so far, oldest first
    calls           \* number of clicks on "Run Conversion" handled so far

textVars == <<markdown_text, t1, t2, t3, chunks, joined, pc>>
guiVars == <<input_var, output_var, frames, progress, status, disk, dialogs,
             calls>>
vars == <<textVars, guiVars>>

-----------------------------------------------------------------------------
(* Bounds of the model *)

\* The longest input text, counted in fragments (see Fragments).
MaxFrags == 4
\* The most files os.walk discovers in one call of convert_folder.
MaxFiles == 2
\* The most clicks on "Run Conversion" in one behaviour.
MaxCalls == 2

-----------------------------------------------------------------------------
(* Characters and strings *)

Max(a, b) == IF a >= b THEN a ELSE b

\* What \s of module re and str.strip() take for whitespace (ASCII part).
Whitespace == {" ", "\t", "\n", "\r", "\f"}

UpperLetters == <<"A", "B", "C", "D", "E", "F", "G", "H", "I", "J", "K", "L", "M",
                  "N", "O", "P", "Q", "R", "S", "T", "U", "V", "W", "X", "Y", "Z">>
LowerLetters == <<"a", "b", "c", "d", "e", "f", "g", "h", "i", "j", "k", "l", "m",
                  "n", "o", "p", "q", "r", "s", "t", "u", "v", "w", "x", "y", "z">>
Digits == {"0", "1", "2", "3", "4", "5", "6", "7", "8", "9"}

\* str.lower() on one character.
LowerChar(c) ==
    IF \E i \in 1..26 : UpperLetters[i] = c
    THEN LowerLetters[CHOOSE i \in 1..26 : UpperLetters[i] = c]
    ELSE c

\* str.lower()
Lower(s) == [i \in 1..Len(s) |-> LowerChar(s[i])]

\* The character class [a-z0-9] of line 61.
IsAlnumLower(c) == c \in Digits \/ \E i \in 1..26 : LowerLetters[i] = c

\* s[a:b] of Python with 1-based a and exclusive 1-based b.
Slice(s, a, b) == SubSeq(s, a, b - 1)

\* str.lstrip()
LStrip(s) ==
    LET n == Len(s)
        k == IF \A i \in 1..n : s[i] \in Whitespace THEN n + 1
             ELSE CHOOSE i \in 1..n : s[i] \notin Whitespace
                                      /\ \A j \in 1..(i - 1) : s[j] \in Whitespace
    IN  SubSeq(s, k, n)

\* str.rstrip()
RStrip(s) ==
    LET n == Len(s)
        k == IF \A i \in 1..n : s[i] \in Whitespace THEN 0
             ELSE CHOOSE i \in 1..n : s[i] \notin Whitespace
                                      /\ \A j \in (i + 1)..n : s[j] \in Whitespace
    IN  SubSeq(s, 1, k)

\* str.strip()
Strip(s) == LStrip(RStrip(s))

\* needle in hay (substring test of line 67)
Contains(hay, needle) ==
    \E i \in 1..(Len(hay) - Len(needle) + 1) :
        \A j \in 1..Len(needle) : hay[i + j - 1] = needle[j]

\* "".join(parts)
RECURSIVE Concat(_)
Concat(parts) ==
    IF parts = <<>> THEN <<>> ELSE Head(parts) \o Concat(Tail(parts))

\* sep.join(parts)
RECURSIVE JoinWith(_, _)
JoinWith(sep, parts) ==
    IF parts = <<>> THEN <<>>
    ELSE IF Len(parts) = 1 THEN parts[1]
    ELSE parts[1] \o sep \o JoinWith(sep, Tail(parts))

\* text.replace("\r\n", "\n").replace("\r", "\n") of line 22: after the first
\* replace every remaining "\r" becomes "\n", so a "\r\n" pair gives one "\n".
RECURSIVE NormalizeNewlines(_)
NormalizeNewlines(s) ==
    IF s = <<>> THEN <<>>
    ELSE IF s[1] = "\r" /\ Len(s) >= 2 /\ s[2] = "\n"
         THEN <<"\n">> \o NormalizeNewlines(SubSeq(s, 3, Len(s)))
    ELSE IF s[1] = "\r" THEN <<"\n">> \o NormalizeNewlines(Tail(s))
    ELSE <<s[1]>> \o NormalizeNewlines(Tail(s))

-----------------------------------------------------------------------------
(* header_pat = \*\*\s*([^\n*]+?)\s*:?\s*\*\*   (line 26) *)

IsStarPair(s, p) == p >= 1 /\ p + 1 <= Len(s) /\ s[p] = "*" /\ s[p + 1] = "*"

\* The first index >= i that holds "*", or Len(s) + 1.
NextStar(s, i) ==
    IF \E j \in i..Len(s) : s[j] = "*"
    THEN CHOOSE j \in i..Len(s) : s[j] = "*" /\ \A k \in i..(j - 1) : s[k] # "*"
    ELSE Len(s) + 1

\* s[e..q-1] matches \s*:?\s* : whitespace with at most one colon.
TailOK(s, e, q) ==
    /\ \A i \in e..(q - 1) : s[i] \in Whitespace \/ s[i] = ":"
    /\ Cardinality({i \in e..(q - 1) : s[i] = ":"}) <= 1

NoMatch == [start |-> 0, end |-> 0, g1 |-> <<>>]

\* header_pat.match at index p. No part of the pattern but the two literal
\* pairs takes a "*", so the match closes at the first "*" after the opening
\* pair, q. Between them: the greedy \s* gives back whitespace only when the
\* lazy group cannot start later, and the group ends as early as the rest,
\* \s*:?\s*, can take all that is left. `end` is exclusive.
HeaderMatchAt(s, p) ==
    IF ~IsStarPair(s, p) THEN NoMatch
    ELSE
    LET q == NextStar(s, p + 2)
    IN  IF q < p + 3 \/ ~IsStarPair(s, q) THEN NoMatch
        ELSE
        LET emin == CHOOSE e \in (p + 2)..q :
                        TailOK(s, e, q) /\ \A f \in (p + 2)..(e - 1) : ~TailOK(s, f, q)
            GroupEnd(b) == Max(b + 1, emin)
            begins == {b \in (p + 2)..(q - 1) :
                         /\ \A i \in (p + 2)..(b - 1) : s[i] \in Whitespace
                         /\ \A i \in b..(GroupEnd(b) - 1) : s[i] # "\n"}
        IN  IF begins = {} THEN NoMatch
            ELSE LET b == CHOOSE x \in begins : \A y \in begins : y <= x
                 IN  [start |-> p, end |-> q + 2, g1 |-> Slice(s, b, GroupEnd(b))]

\* list(header_pat.finditer(s)) searching from index pos: the leftmost match,
\* then the search resumes where that match ended.
RECURSIVE Finditer(_, _)
Finditer(s, pos) ==
    IF pos > Len(s) THEN <<>>
    ELSE LET m == HeaderMatchAt(s, pos)
         IN  IF m = NoMatch THEN Finditer(s, pos + 1)
             ELSE <<m>> \o Finditer(s, m.end)

Headers(s) == Finditer(s, 1)

-----------------------------------------------------------------------------
(* cut_intro_sections (lines 15-72) *)

memo == {<<"t", "o">>, <<"f", "r", "o", "m">>, <<"d", "a", "t", "e">>,
         <<"s", "u", "b", "j", "e", "c", "t">>}

unwanted_keywords == <<
    <<"w", "e", "e", "k", "l", "y", " ", "p", "e", "r", "s", "o", "n", "n", "e", "l">>,
    <<"p", "e", "r", "s", "o", "n", "n", "e", "l">>,
    <<"m", "e", "e", "t", "i", "n", "g">>,
    <<"t", "r", "a", "i", "n", "i", "n", "g">>,
    <<"s", "a", "f", "e", "t", "y">>,
    <<"c", "o", "m", "p", "l", "i", "a", "n", "c", "e">>,
    <<"k", "u", "d", "o", "s">>,
    <<"w", "e", "b", "i", "n", "a", "r">>,
    <<"s", "t", "a", "n", "d", "b", "y">>,
    <<"a", "u", "t", "o", "m", "a", "t", "i", "o", "n", " ", "s", "t", "a", "n", "d", "b", "y">>,
    <<"a", "u", "t", "o", "m", "a", "t", "i", "o", "n", " ", "o", "v", "e", "r", "t", "i", "m", "e">>,
    <<"s", "i", "x", " ", "m", "o", "n", "t", "h", "s", " ", "g", "o", "a", "l", "s">> >>

\* title = m.group(1).strip().lower()   (line 30)
Title(m) == Lower(Strip(m.g1))

\* re.sub(r"[^a-z0-9]+", " ", s): every maximal run of other characters
\* becomes one space.
RECURSIVE SubNonAlnum(_)
SubNonAlnum(s) ==
    IF s = <<>> THEN <<>>
    ELSE IF IsAlnumLower(s[1]) THEN <<s[1]>> \o SubNonAlnum(Tail(s))
    ELSE IF Len(s) >= 2 /\ ~IsAlnumLower(s[2]) THEN SubNonAlnum(Tail(s))
    ELSE <<" ">> \o SubNonAlnum(Tail(s))

\* title_norm   (line 61)
TitleNorm(m) == Strip(SubNonAlnum(Title(m)))

\* any(kw in title_norm for kw in unwanted_keywords)   (line 67)
IsUnwanted(m) ==
    \E k \in 1..Len(unwanted_keywords) : Contains(TitleNorm(m), unwanted_keywords[k])

\* FirstRealStart without the test of line 31: the first header of any title.
FirstHeaderStart(t) ==
    LET ms == Headers(t)
    IN  IF ms = <<>> THEN 0 ELSE ms[1].start

\* first_real_start (lines 28-33): the start of the first header whose title
\* is not in memo; 0 stands for None.
FirstRealStart(t) ==
    LET ms == Headers(t)
        real == {i \in 1..Len(ms) : Title(ms[i]) \notin memo}
    IN  IF real = {} THEN 0
        ELSE ms[CHOOSE i \in real : \A j \in real : i <= j].start

\* STEP 1 (lines 22-36)
IntroCut(text) ==
    LET t == NormalizeNewlines(text)
        first_real_start == FirstRealStart(t)
    IN  IF first_real_start # 0
        THEN LStrip(SubSeq(t, first_real_start, Len(t)))
        ELSE t

\* OutParts without the `continue` of line 68: every block is appended.
OutPartsNoSkip(t, matches) ==
    [i \in 1..Len(matches) |->
        Slice(t, matches[i].start,
              IF i + 1 <= Len(matches) THEN matches[i + 1].start ELSE Len(t) + 1)]

\* out_parts (lines 58-69): the blocks of the headers that are not unwanted.
OutParts(t, matches) ==
    LET block_end(i) == IF i + 1 <= Len(matches) THEN matches[i + 1].start
                        ELSE Len(t) + 1
        block(i) == Slice(t, matches[i].start, block_end(i))
        kept == {i \in 1..Len(matches) : ~IsUnwanted(matches[i])}
        RECURSIVE parts(_)
        parts(i) == IF i > Len(matches) THEN <<>>
                    ELSE IF i \in kept THEN <<block(i)>> \o parts(i + 1)
                    ELSE parts(i + 1)
    IN  parts(1)

\* STEP 2 (lines 54-72)
SectionFilter(t) ==
    LET matches == Headers(t)
    IN  IF matches = <<>> THEN LStrip(t)
        ELSE LStrip(Concat(OutParts(t, matches)))

cut_intro_sections(text) == SectionFilter(IntroCut(text))

-----------------------------------------------------------------------------
(* cut_off_after_standby (lines 75-81) *)

automation == <<"a", "u", "t", "o", "m", "a", "t", "i", "o", "n">>
standby == <<"s", "t", "a", "n", "d", "b", "y">>

\* The literal w matches at index i, ignoring case.
LiteralAt(s, i, w) ==
    /\ i + Len(w) - 1 <= Len(s)
    /\ \A j \in 1..Len(w) : LowerChar(s[i + j - 1]) = w[j]

\* The first index >= i that holds no whitespace, or Len(s) + 1.
SkipSpace(s, i) ==
    IF \E j \in i..Len(s) : s[j] \notin Whitespace
    THEN CHOOSE j \in i..Len(s) :
             s[j] \notin Whitespace /\ \A k \in i..(j - 1) : s[k] \in Whitespace
    ELSE Len(s) + 1

\* cutoff_pat = \*\*\s*(automation\s+)?standby\s*:?[\s*]*  matches at index p.
\* The part after "standby" matches the empty string, so it decides nothing.
CutoffMatchAt(s, p) ==
    /\ IsStarPair(s, p)
    /\ LET i == SkipSpace(s, p + 2)
           k == SkipSpace(s, i + Len(automation))
       IN  \/ LiteralAt(s, i, standby)
           \/ /\ LiteralAt(s, i, automation)
              /\ k > i + Len(automation)
              /\ LiteralAt(s, k, standby)

cut_off_after_standby(text) ==
    LET hits == {p \in 1..Len(text) : CutoffMatchAt(text, p)}
    IN  IF hits # {}
        THEN RStrip(SubSeq(text, 1, (CHOOSE p \in hits : \A r \in hits : p <= r) - 1))
        ELSE text

-----------------------------------------------------------------------------
(* split_into_chunks (lines 84-87) *)

\* The lookahead (?=\*\*[^*]+?\*\*) holds at index p.
SplitAt(s, p) ==
    /\ IsStarPair(s, p)
    /\ LET q == NextStar(s, p + 2) IN q >= p + 3 /\ IsStarPair(s, q)

\* re.split on the empty matches of the lookahead: the text is cut before
\* every index where it holds; a match at the first index leaves an empty
\* first part.
RECURSIVE SplitFrom(_, _, _)
SplitFrom(s, from, p) ==
    IF p > Len(s) THEN <<Slice(s, from, Len(s) + 1)>>
    ELSE IF SplitAt(s, p) THEN <<Slice(s, from, p)>> \o SplitFrom(s, p, p + 1)
    ELSE SplitFrom(s, from, p + 1)

ReSplit(s) == SplitFrom(s, 1, 1)

\* [p.strip() for p in parts if p.strip()]
RECURSIVE StripNonEmpty(_)
StripNonEmpty(parts) ==
    IF parts = <<>> THEN <<>>
    ELSE LET c == Strip(Head(parts))
         IN  IF c = <<>> THEN StripNonEmpty(Tail(parts))
             ELSE <<c>> \o StripNonEmpty(Tail(parts))

split_into_chunks(text) == StripNonEmpty(ReSplit(text))

\* "\n\n".join(chunks)   (line 95)
JoinChunks(cs) == JoinWith(<<"\n", "\n">>, cs)

\* clean_text_pipeline (lines 90-95)
clean_text_pipeline(text) ==
    JoinChunks(split_into_chunks(cut_off_after_standby(cut_intro_sections(text))))

-----------------------------------------------------------------------------
(* The texts the model runs the pipeline on *)

\* The pieces an input text is put together from: headers of the four kinds
\* the pipeline tells apart (plain, blocked, exempt, truncation marker), body
\* text, a line break, and loose asterisks.
Fragments == {
    <<"*", "*", "a", "*", "*">>,
    <<"*", "*", "M", "e", "e", "t", "i", "n", "g", ":", "*", "*">>,
    <<"*", "*", "T", "o", ":", "*", "*">>,
    <<"*", "*", "S", "t", "a", "n", "d", "b", "y", "*", "*">>,
    <<"b">>,
    <<"\n">>,
    <<"*">>,
    <<"*", "*">> }

Inputs == {Concat(fs) : fs \in UNION {[1..n -> Fragments] : n \in 0..MaxFrags}}

\* The pieces of the texts given to the chunk splitter/joiner alone.
ChunkFragments == {
    <<"*", "*", "a", "*", "*">>,
    <<"b">>,
    <<"\n">>,
    <<" ">> }

ChunkInputs == {Concat(fs) : fs \in UNION {[1..n -> ChunkFragments] : n \in 0..MaxFrags}}

\* The GUI as the module-level code of lines 169-199 leaves it.
GuiIdle ==
    /\ input_var = ""
    /\ output_var = ""
    /\ frames = <<>>
    /\ progress = [maximum |-> 100, value |-> 0]
    /\ status = [kind |-> "waiting", file |-> "none"]
    /\ disk = <<>>
    /\ dialogs = <<>>
    /\ calls = 0

-----------------------------------------------------------------------------
(* clean_text_pipeline, one action per step *)

\* cut_intro_sections, STEP 1 (lines 22-36)
CutIntro ==
    /\ pc = "cut_intro"
    /\ t1' = IntroCut(markdown_text)
    /\ pc' = "filter_sections"
    /\ UNCHANGED <<markdown_text, t2, t3, chunks, joined, guiVars>>

\* cut_intro_sections, STEP 2 and return (lines 38-72; line 92 of the caller)
FilterSections ==
    /\ pc = "filter_sections"
    /\ t2' = SectionFilter(t1)
    /\ pc' = "cut_off"
    /\ UNCHANGED <<markdown_text, t1, t3, chunks, joined, guiVars>>

\* t = cut_off_after_standby(t)   (line 93)
CutOffAfterStandby ==
    /\ pc = "cut_off"
    /\ t3' = cut_off_after_standby(t2)
    /\ pc' = "split"
    /\ UNCHANGED <<markdown_text, t1, t2, chunks, joined, guiVars>>

\* chunks = split_into_chunks(t)   (line 94)
SplitIntoChunks ==
    /\ pc = "split"
    /\ chunks' = split_into_chunks(t3)
    /\ pc' = "join"
    /\ UNCHANGED <<markdown_text, t1, t2, t3, joined, guiVars>>

\* return "\n\n".join(chunks)   (line 95)
Join ==
    /\ pc = "join"
    /\ joined' = Append(joined, JoinChunks(chunks))
    /\ pc' = "done"
    /\ UNCHANGED <<markdown_text, t1, t2, t3, chunks, guiVars>>

\* The chunk splitter/joiner run again on its own output.
Rerun ==
    /\ pc = "done"
    /\ Len(joined) = 1
    /\ t3' = joined[1]
    /\ pc' = "split"
    /\ UNCHANGED <<markdown_text, t1, t2, chunks, joined, guiVars>>

Init ==
    /\ markdown_text \in Inputs
    /\ t1 = <<>> /\ t2 = <<>> /\ t3 = <<>>
    /\ chunks = <<>>
    /\ joined = <<>>
    /\ pc = "cut_intro"
    /\ GuiIdle

Next == CutIntro \/ FilterSections \/ CutOffAfterStandby \/ SplitIntoChunks \/ Join

\* clean_text_pipeline on every input text.
Spec == Init /\ [][Next]_vars

InitChunk ==
    /\ markdown_text = <<>>
    /\ t1 = <<>> /\ t2 = <<>>
    /\ t3 \in ChunkInputs
    /\ chunks = <<>>
    /\ joined = <<>>
    /\ pc = "split"
    /\ GuiIdle

NextChunk == SplitIntoChunks \/ Join \/ Rerun

\* The chunk splitter/joiner (lines 94-95) alone, run twice.
SpecChunk == InitChunk /\ [][NextChunk]_vars

-----------------------------------------------------------------------------
(* convert_folder and the GUI (lines 100-201) *)

\* The files an input folder may hold: Path(root) / filename, as stem and
\* suffix. Two of them differ in the suffix only.
Files == {[stem |-> "report", ext |-> "docx"],
          [stem |-> "report", ext |-> "pdf"],
          [stem |-> "notes", ext |-> "docx"]}

\* all_files (lines 104-107): os.walk lists every file once, in its own order.
FileLists ==
    {fs \in UNION {[1..n -> Files] : n \in 0..MaxFiles} :
        \A i, j \in 1..Len(fs) : i # j => fs[i] # fs[j]}

\* save_path (lines 128-129): the relative path with its suffix replaced by
\* ".md", under the output folder.
SavePath(f) == [stem |-> f.stem, ext |-> "md"]

\* What the try block of one loop iteration (lines 119-135) may end in.
Outcomes == {"ok", "convert_error", "clean_error", "open_error", "write_error"}

\* The folders askdirectory may return; "" when the dialog is cancelled.
InputFolders == {"", "docs"}
OutputFolders == {"", "md"}

Top == frames[Len(frames)]

\* Tk dispatches an event from root.mainloop() (line 201) when no handler is
\* running, and from progress_bar.update() (line 142) inside convert_folder.
Dispatching == IF frames = <<>> THEN TRUE ELSE Top.pc = "update"

\* select_input_folder (lines 148-150)
SelectInputFolder ==
    /\ Dispatching
    /\ \E folder \in InputFolders :
        /\ folder # input_var
        /\ input_var' = folder
    /\ UNCHANGED <<output_var, frames, progress, status, disk, dialogs, calls, textVars>>

\* select_output_folder (lines 153-155)
SelectOutputFolder ==
    /\ Dispatching
    /\ \E folder \in OutputFolders :
        /\ folder # output_var
        /\ output_var' = folder
    /\ UNCHANGED <<input_var, frames, progress, status, disk, dialogs, calls, textVars>>

\* run_conversion (lines 158-166) with the start of convert_folder
\* (lines 101-116), the command of the "Run Conversion" button (line 199).
RunConversion ==
    /\ Dispatching
    /\ calls < MaxCalls
    /\ calls' = calls + 1
    /\ IF input_var = "" \/ output_var = ""
       THEN /\ dialogs' = Append(dialogs, [kind |-> "error", call |-> calls + 1])
            /\ UNCHANGED <<frames, progress>>
       ELSE \E all_files \in FileLists :
            IF Len(all_files) = 0
            THEN /\ dialogs' = Append(dialogs, [kind |-> "warning", call |-> calls + 1])
                 /\ UNCHANGED <<frames, progress>>
            ELSE /\ progress' = [maximum |-> Len(all_files), value |-> 0]
                 /\ frames' = Append(frames, [id |-> calls + 1,
                                              all_files |-> all_files,
                                              idx |-> 0,
                                              reports |-> <<>>,
                                              pc |-> "try"])
                 /\ UNCHANGED dialogs
    /\ UNCHANGED <<input_var, output_var, status, disk, textVars>>

\* What one iteration leaves at save_path: open(save_path, "w") empties the
\* file before f.write can fail.
Written(f, id, outcome) ==
    IF outcome = "ok"
    THEN (SavePath(f) :> [file |-> f, call |-> id, whole |-> TRUE]) @@ disk
    ELSE IF outcome = "write_error"
    THEN (SavePath(f) :> [file |-> f, call |-> id, whole |-> FALSE]) @@ disk
    ELSE disk

\* status_label.config of line 135 or of line 138
Report(f, outcome) ==
    [kind |-> IF outcome = "ok" THEN "Processed" ELSE "Skipped", file |-> f]

\* One iteration of the loop up to the progress update (lines 118-141).
ProcessFile ==
    /\ frames # <<>>
    /\ Top.pc = "try"
    /\ Top.idx < Len(Top.all_files)
    /\ \E outcome \in Outcomes :
        LET idx == Top.idx + 1
            file_path == Top.all_files[idx]
        IN  /\ disk' = Written(file_path, Top.id, outcome)
            /\ status' = Report(file_path, outcome)
            /\ progress' = [progress EXCEPT !.value = idx]
            /\ frames' = [frames EXCEPT ![Len(frames)] =
                            [@ EXCEPT !.idx = idx,
                                      !.reports = Append(@, [file |-> file_path,
                                                             outcome |-> outcome,
                                                             kind |-> Report(file_path, outcome).kind]),
                                      !.pc = "update"]]
    /\ UNCHANGED <<input_var, output_var, dialogs, calls, textVars>>

\* progress_bar.update() returns (line 142): back to the loop header.
UpdateReturns ==
    /\ frames # <<>>
    /\ Top.pc = "update"
    /\ frames' = [frames EXCEPT ![Len(frames)].pc = "try"]
    /\ UNCHANGED <<input_var, output_var, progress, status, disk, dialogs, calls, textVars>>

\* The loop is exhausted: messagebox.showinfo("Done", ...) and return (line 144).
ShowDone ==
    /\ frames # <<>>
    /\ Top.pc = "try"
    /\ Top.idx = Len(Top.all_files)
    /\ dialogs' = Append(dialogs, [kind |-> "done",
                                   call |-> Top.id,
                                   total_files |-> Len(Top.all_files),
                                   all_files |-> Top.all_files,
                                   reports |-> Top.reports,
                                   value |-> progress.value])
    /\ frames' = SubSeq(frames, 1, Len(frames) - 1)
    /\ UNCHANGED <<input_var, output_var, progress, status, disk, calls, textVars>>

InitBatch ==
    /\ markdown_text = <<>>
    /\ t1 = <<>> /\ t2 = <<>> /\ t3 = <<>>
    /\ chunks = <<>>
    /\ joined = <<>>
    /\ pc = "idle"
    /\ GuiIdle

NextBatch ==
    \/ SelectInputFolder
    \/ SelectOutputFolder
    \/ RunConversion
    \/ ProcessFile
    \/ UpdateReturns
    \/ ShowDone

\* The GUI: folder selection, the Run button, convert_folder.
SpecBatch == InitBatch /\ [][NextBatch]_vars

-----------------------------------------------------------------------------
(* Properties of the text cleaning pipeline *)

\* The result of clean_text_pipeline, once it has returned.
Output == joined[1]

\* The titles of a truncation marker.
TruncationTitles == {standby, automation \o <<" ">> \o standby}

\* The characters of s at the indices in keep, in their order.
RECURSIVE Restrict(_, _, _)
Restrict(s, keep, i) ==
    IF i > Len(s) THEN <<>>
    ELSE IF i \in keep THEN <<s[i]>> \o Restrict(s, keep, i + 1)
    ELSE Restrict(s, keep, i + 1)

\* The section spans of s, in order: from each header's start to the next
\* header's start, or to the end of the text.
SectionSpans(s) ==
    LET ms == Headers(s)
    IN  [k \in 1..Len(ms) |->
            Slice(s, ms[k].start,
                  IF k < Len(ms) THEN ms[k + 1].start ELSE Len(s) + 1)]

\* C1: when the input holds a truncation-marker header, nothing that lies at
\* or after the start of the first one is in the output. Stated on the
\* characters: a character other than whitespace that the input holds only at
\* or after that offset does not occur in the output (the pipeline inserts
\* nothing but line breaks).
C1_NothingAfterMarker ==
    pc = "done" =>
        LET ms == Headers(markdown_text)
            marks == {k \in 1..Len(ms) : Title(ms[k]) \in TruncationTitles}
        IN  marks # {} =>
            LET p == ms[CHOOSE k \in marks : \A j \in marks : k <= j].start
                before == {markdown_text[i] : i \in 1..(p - 1)}
                after == {markdown_text[i] : i \in p..Len(markdown_text)}
            IN  \A c \in (after \ before) \ Whitespace :
                    \A i \in 1..Len(Output) : Output[i] # c

\* C2: the output of clean_text_pipeline holds no section header whose
\* normalized title contains a blocked keyword.
C2_NoBlockedHeaderInOutput ==
    pc = "done" =>
        LET ms == Headers(Output)
        IN  \A k \in 1..Len(ms) : ~IsUnwanted(ms[k])

\* C3: on a text with at least one header the section filter returns the
\* characters of the sections whose normalized title contains no blocked
\* keyword, each character once and in document order, with leading
\* whitespace stripped; the text before the first header and every blocked
\* section are left out.
C3_FilterKeepsUnblockedInOrder ==
    (pc = "cut_off" /\ Headers(t1) # <<>>) =>
        LET ms == Headers(t1)
            last(k) == IF k < Len(ms) THEN ms[k + 1].start - 1 ELSE Len(t1)
            unblocked == {k \in 1..Len(ms) : ~IsUnwanted(ms[k])}
            keep == UNION {ms[k].start..last(k) : k \in unblocked}
        IN  t2 = LStrip(Restrict(t1, keep, 1))

\* C3 witness: the filter has run on sections A, B (blocked), C.
C3_Witness ==
    /\ pc = "cut_off"
    /\ LET ms == Headers(t1)
       IN  \E k \in 1..(Len(ms) - 2) :
               /\ ~IsUnwanted(ms[k])
               /\ IsUnwanted(ms[k + 1])
               /\ ~IsUnwanted(ms[k + 2])
               /\ t2 = SectionSpans(t1)[k] \o SectionSpans(t1)[k + 2]

\* C4: when the input has a header whose title is not exempt, the intro cut
\* returns the text from the start of the first such header on, so the text
\* before it, exempt headers included, is gone and the result starts with
\* that header; when the input has no header or only exempt ones the intro
\* cut removes nothing.
C4_IntroCutAtFirstRealHeader ==
    pc = "filter_sections" =>
        LET t == NormalizeNewlines(markdown_text)
            ms == Headers(t)
            cut == Len(t) - Len(t1)
        IN  IF \E k \in 1..Len(ms) : Title(ms[k]) \notin memo
            THEN /\ t1 = SubSeq(t, cut + 1, Len(t))
                 /\ \E k \in 1..Len(ms) :
                        /\ ms[k].start = cut + 1
                        /\ Title(ms[k]) \notin memo
                        /\ \A j \in 1..(k - 1) : Title(ms[j]) \in memo
                 /\ HeaderMatchAt(t1, 1) # NoMatch
            ELSE t1 = t

\* C4 witness: the intro cut has removed body text and an exempt header that
\* stood before the first real header.
C4_Witness ==
    /\ pc = "filter_sections"
    /\ LET ms == Headers(markdown_text)
       IN  /\ Len(ms) >= 2
           /\ ms[1].start > 1
           /\ Title(ms[1]) \in memo
           /\ Title(ms[2]) \notin memo
           /\ t1 = SubSeq(markdown_text, ms[2].start, Len(markdown_text))

\* C5: on an input without any section header clean_text_pipeline returns the
\* text changed only by trimming the whitespace around it.
C5_NoHeaderPassThrough ==
    (pc = "done" /\ Headers(markdown_text) = <<>>) => Output = Strip(markdown_text)

\* C6: on an input that begins with a header and holds only headers that are
\* neither exempt nor blocked nor truncation markers, the output is the
\* section spans, each trimmed, the empty ones dropped, joined by "\n\n".
C6_OnlySpacingChanges ==
    LET ms == Headers(markdown_text)
    IN  ( /\ pc = "done"
          /\ ms # <<>>
          /\ ms[1].start = 1
          /\ \A k \in 1..Len(ms) :
                /\ Title(ms[k]) \notin memo
                /\ Title(ms[k]) \notin TruncationTitles
                /\ ~IsUnwanted(ms[k]) )
        => Output = JoinChunks(StripNonEmpty(SectionSpans(markdown_text)))

\* C7: the chunk split/join step is idempotent: run on its own output it
\* returns that output.
C7_JoinIdempotent ==
    Len(joined) = 2 => joined[2] = joined[1]

-----------------------------------------------------------------------------
(* Properties of the batch driver *)

DoneReports == {i \in 1..Len(dialogs) : dialogs[i].kind = "done"}

\* Every file of a finished call was attempted once, in discovery order, and
\* reported as processed or as skipped according to how its attempt ended.
AttemptedOnceInOrder ==
    \A i \in DoneReports :
        LET d == dialogs[i]
        IN  /\ Len(d.reports) = Len(d.all_files)
            /\ \A k \in 1..Len(d.reports) :
                   /\ d.reports[k].file = d.all_files[k]
                   /\ d.reports[k].kind = "Skipped" <=> d.reports[k].outcome # "ok"

\* C8: whatever attempts fail, every discovered file is attempted once in
\* discovery order, a failed file is reported as skipped and the later files
\* are still attempted, and the "Done" report comes with the progress value
\* equal to the total file count.
C8_EveryFileOnceThenDone ==
    /\ AttemptedOnceInOrder
    /\ \A i \in DoneReports : dialogs[i].value = dialogs[i].total_files

\* C9: when a batch has finished, the destination of each file that was
\* processed successfully has not been overwritten by another file of the
\* same batch.
C9_NoOverwriteWithinBatch ==
    \A i \in DoneReports :
        LET d == dialogs[i]
        IN  \A k \in 1..Len(d.reports) :
                d.reports[k].outcome = "ok" =>
                    LET w == disk[SavePath(d.reports[k].file)]
                    IN  ~(w.call = d.call /\ w.file # d.reports[k].file)

\* C10: at most one batch is in progress at any time, and the progress value
\* never decreases while a batch runs.
C10_OneBatchMonotoneProgress ==
    [][ /\ Len(frames') <= 1
        /\ (frames # <<>> /\ frames' # <<>>) => progress'.value >= progress.value ]_vars

====
